---- MODULE Spec2Model ----
(***************************************************************************)
(* build-o-tron: the CI control plane's store (repos, remotes, commits,    *)
(* jobs, runs), the webhook ingress of the server (src/src/main.rs), the   *)
(* operator CLI (src/ci-ctl/src/main.rs) and the worker-facing run state   *)
(* machine.  The store is one sqlite file behind a mutex: every store      *)
(* operation is one atomic step.                                           *)
(***************************************************************************)
EXTENDS Integers, Sequences, FiniteSets, TLC

VARIABLES
    db,      \* the sqlite file: tables repos, remotes, commits, jobs, runs
    now,     \* wall clock, read when a row is stamped
    outbox,  \* commit statuses sent upstream by the notifiers
    handed,  \* history: <<run id, host>> for every run a claim returned
    current_step, \* the runner's RunningJob.current_step: the stack of step names
    last     \* history: the operation that ran last, its input and its answer

vars == <<db, now, outbox, handed, current_step, last>>

----------------------------------------------------------------------------
\* Bounds of the model.
MaxRepos == 2
MaxRemotes == 2
MaxJobs == 2
MaxRuns == 3
MaxLiveRuns == 1
MaxTime == 2
MaxDepth == 4
MaxStrLen == 2

\* Option<T>: None or Some(x).
None == <<>>
Some(x) == <<x>>
IsSome(o) == o # <<>>
Unwrap(o) == o[1]

\* RunState, as stored in runs.state.
Pending == 0
Started == 1
Finished == 2
Error == 3
Invalid == 4

\* JobResult, as stored in runs.build_result.
Pass == 0
Fail == 1

\* The timeout new_run gives a run, in clock ticks.
RunTimeout == 1

\* Inputs.
RepoNames == {"foo", "bar"}
Paths == {"alice/foo", "bob/bar"}
Shas == {"abc", "def"}
Emails == {"dev@example.org"}
Hosts == {1, 2}
RemoteKinds == {"github", "github-email", "gitlab"}

\* The config directory (read-only at run time): each file's content, as the
\* shape serde's untagged NotifierConfig finds in it.
ConfigFiles == {"gh.json", "gh2.json", "mail.json", "bad.json", "absent.json"}
FileShape(path) ==
    CASE path \in {"gh.json", "gh2.json"} -> "GitHub"
      [] path = "mail.json" -> "Email"
      [] path = "bad.json" -> "Malformed"
      [] OTHER -> "Missing"
\* webhook_token of a GitHub-style config file.
WebhookToken(path) ==
    CASE path = "gh.json" -> "hunter2"
      [] path = "gh2.json" -> "s3cret"
      [] OTHER -> "-"

\* The config directory the CLI is pointed at (its second positional
\* argument, "./config" when left out); a remote row keeps the file's name
\* relative to it.  Only "./config" holds the files above.
ConfigDirs == {"./config", "./elsewhere"}
FileShapeIn(dir, path) == IF dir = "./config" THEN FileShape(path) ELSE "Missing"

\* Metrics a run may report.
MetricNames == {"time"}
MetricValues == {"1s", "2s"}

\* The columns of the jobs and metrics tables, as CREATE TABLE names them.
JobsColumns == {"id", "source", "created_time", "remote_id", "commit_id", "run_preferences"}
MetricsColumns == {"id", "job_id", "name", "value"}
\* UNIQUE(job_id, name)
MetricsUnique == {"job_id", "name"}

\* The clause that ends SELECT_ALL_RUNS_WITH_JOB_INFO, as the source spells it.
SelectAllRunsOrderClause == "oder by runs.created_time asc"

\* What github answers to the webhook bootstrap of add repo: the hook is
\* there, it was created, creating it failed, or the presence check failed.
HookOutcomes == {"present", "created", "create failed", "check failed"}

----------------------------------------------------------------------------
\* Store queries.

Ids(table) == 1..Len(table)

\* COMMIT_TO_ID: select id from commits where sha=?1
CommitToId(d, sha) ==
    IF \E i \in Ids(d.commits) : d.commits[i] = sha
    THEN Some(CHOOSE i \in Ids(d.commits) : d.commits[i] = sha)
    ELSE None

\* The clone url new_remote derives for a github-hosted path.
GitUrl(path) == <<"https://www.github.com/", path, ".git">>

\* select id, repo_id from remotes where remote_git_url=?1 (first row)
RemoteByGitUrl(d, url) ==
    LET hits == {i \in Ids(d.remotes) : d.remotes[i].remote_git_url = url}
    IN IF hits = {} THEN None
       ELSE Some(CHOOSE i \in hits : \A j \in hits : i <= j)

remote_by_path_and_api(d, api, path) ==
    LET hits == {i \in Ids(d.remotes) :
                    d.remotes[i].remote_api = api /\ d.remotes[i].remote_path = path}
    IN IF hits = {} THEN None
       ELSE Some(CHOOSE i \in hits : \A j \in hits : i <= j)

repo_id_by_name(d, name) ==
    IF \E i \in Ids(d.repos) : d.repos[i].repo_name = name
    THEN Some(CHOOSE i \in Ids(d.repos) : d.repos[i].repo_name = name)
    ELSE None

\* JOB_BY_COMMIT_ID: select ... from jobs where commit_id=?1
JobByCommitId(d, commit_id) == {j \in Ids(d.jobs) : d.jobs[j].commit_id = commit_id}

job_for_commit(d, sha) ==
    LET c == CommitToId(d, sha)
    IN IF ~IsSome(c) \/ JobByCommitId(d, Unwrap(c)) = {} THEN None
       ELSE Some(CHOOSE j \in JobByCommitId(d, Unwrap(c)) :
                    \A k \in JobByCommitId(d, Unwrap(c)) : j <= k)

\* A bug PENDING_RUNS could have: the state filter left out.
PendingRunsAnyState(d, host) ==
    {r \in Ids(d.runs) :
        d.runs[r].host_preference = Some(host) \/ d.runs[r].host_preference = None}

\* A bug PENDING_RUNS could have: the host filter left out.
PendingRunsAnyHost(d, host) == {r \in Ids(d.runs) : d.runs[r].state = Pending}

\* PENDING_RUNS: select ... from runs where state=0 and
\* (host_preference=?1 or host_preference is null)
PendingRuns(d, host) ==
    {r \in Ids(d.runs) :
        /\ d.runs[r].state = Pending
        /\ (d.runs[r].host_preference = Some(host) \/ d.runs[r].host_preference = None)}

\* JOBS_NEEDING_HOST_RUN for a host (?2), with a cut-off (?1) older than
\* every job: the jobs that prefer "all" and have no run whose host_id is
\* the host.
JobsNeedingHostRun(d, host) ==
    {j \in Ids(d.jobs) :
        /\ d.jobs[j].run_preferences = Some("all")
        /\ ~\E r \in Ids(d.runs) : d.runs[r].job_id = j /\ d.runs[r].host_id = Some(host)}

\* A bug ACTIVE_RUNS could have: only state=1 is selected.
ActiveRunsStartedOnly(d) == {r \in Ids(d.runs) : d.runs[r].state = Started}

\* ACTIVE_RUNS: select ... from runs where state=1 or state=0
ActiveRuns(d) == {r \in Ids(d.runs) : d.runs[r].state = Started \/ d.runs[r].state = Pending}

\* LAST_RUN_FOR_JOB: select ... from runs where job_id=?1
\* order by started_time desc limit 1.  NULL sorts below every value, so a run
\* that never started comes after every run that did; rows that tie may come
\* in either order.  The set of rows the query may return.
LastRunForJob(d, job_id) ==
    LET rows == {r \in Ids(d.runs) : d.runs[r].job_id = job_id}
        key(r) == IF IsSome(d.runs[r].start_time) THEN Unwrap(d.runs[r].start_time) + 1 ELSE 0
    IN {r \in rows : \A q \in rows : key(q) <= key(r)}

\* SELECT_ALL_RUNS_WITH_JOB_INFO: jobs join runs on jobs.id=runs.job_id, by
\* runs.created_time ascending.  None when sqlite cannot parse the statement.
SelectAllRunsWithJobInfo(d) ==
    IF SelectAllRunsOrderClause # "order by runs.created_time asc" THEN None
    ELSE LET rows == {r \in Ids(d.runs) : d.runs[r].job_id \in Ids(d.jobs)}
             n == Cardinality(rows)
             before(a, b) == \/ d.runs[a].create_time < d.runs[b].create_time
                             \/ d.runs[a].create_time = d.runs[b].create_time /\ a < b
             order == CHOOSE sq \in [1..n -> rows] :
                        \A i, j \in 1..n : i < j => before(sq[i], sq[j])
         IN Some([i \in 1..n |->
                    [job_id |-> d.runs[order[i]].job_id, run_id |-> order[i],
                     state |-> d.runs[order[i]].state,
                     created_time |-> d.runs[order[i]].create_time,
                     commit_id |-> d.jobs[d.runs[order[i]].job_id].commit_id,
                     run_preferences |-> d.jobs[d.runs[order[i]].job_id].run_preferences]])

\* METRICS_FOR_RUN: select * from metrics where run_id=?1 order by id asc.
\* None when the statement cannot be prepared.
MetricsForRun(d, run_id) ==
    IF "run_id" \notin MetricsColumns THEN None
    ELSE Some({i \in Ids(d.metrics) : d.metrics[i].run_id = run_id})

----------------------------------------------------------------------------
\* Store operations.  Each returns the new store and its answer.

ensure_commit(d, sha) ==
    IF IsSome(CommitToId(d, sha))
    THEN [db |-> d, commit_id |-> Unwrap(CommitToId(d, sha)), was_new |-> FALSE]
    ELSE [db |-> [d EXCEPT !.commits = Append(@, sha)],
          commit_id |-> Len(d.commits) + 1, was_new |-> TRUE]

JobRow(remote_id, commit_id, source, run_preferences) ==
    [remote_id |-> remote_id, commit_id |-> commit_id, source |-> source,
     run_preferences |-> run_preferences]

\* A bug new_job could have: insert without looking for the existing job.
new_job_always_inserts(d, remote_id, sha, source, run_preferences) ==
    LET e == ensure_commit(d, sha)
    IN [db |-> [e.db EXCEPT !.jobs =
                    Append(@, JobRow(remote_id, e.commit_id, source, run_preferences))],
        job_id |-> Len(d.jobs) + 1, commit_id |-> e.commit_id, was_new |-> TRUE]

new_job(d, remote_id, sha, source, run_preferences) ==
    LET e == ensure_commit(d, sha)
        old == {j \in Ids(d.jobs) :
                    d.jobs[j].remote_id = remote_id /\ d.jobs[j].commit_id = e.commit_id}
    IN IF old # {}
       THEN [db |-> e.db, job_id |-> CHOOSE j \in old : TRUE,
             commit_id |-> e.commit_id, was_new |-> FALSE]
       ELSE [db |-> [e.db EXCEPT !.jobs =
                        Append(@, JobRow(remote_id, e.commit_id, source, run_preferences))],
             job_id |-> Len(d.jobs) + 1, commit_id |-> e.commit_id, was_new |-> TRUE]

RunRow(job_id, host_preference, t) ==
    [job_id |-> job_id, state |-> Pending, host_id |-> None, build_token |-> None,
     create_time |-> t, start_time |-> None, complete_time |-> None,
     run_timeout |-> Some(RunTimeout), build_result |-> None, final_text |-> None,
     host_preference |-> host_preference]

new_run(d, job_id, host_preference, t) ==
    [db |-> [d EXCEPT !.runs = Append(@, RunRow(job_id, host_preference, t))],
     run_id |-> Len(d.runs) + 1]

\* The build token generated for a claim: fresh for every run.
FreshToken(run_id) == <<"token", run_id>>

\* A bug claim_pending_run could have: start_time is not stamped.
ClaimRunUnstamped(d, run_id, host, t) ==
    [d EXCEPT !.runs[run_id] =
        [@ EXCEPT !.state = Started, !.host_id = Some(host),
                  !.build_token = Some(FreshToken(run_id))]]

\* claim_pending_run's update of the run it picked.
ClaimRun(d, run_id, host, t) ==
    [d EXCEPT !.runs[run_id] =
        [@ EXCEPT !.state = Started, !.host_id = Some(host),
                  !.build_token = Some(FreshToken(run_id)), !.start_time = Some(t)]]

\* A bug finish_run could have: the token is not compared.
finish_run_no_token_check(d, run_id, token, result, text, t) ==
    IF d.runs[run_id].state # Started
    THEN [db |-> d, ret |-> "StateInvalid"]
    ELSE [db |-> [d EXCEPT !.runs[run_id] =
                    [@ EXCEPT !.state = IF result = Pass THEN Finished ELSE Error,
                              !.build_result = Some(result),
                              !.final_text = Some(text),
                              !.complete_time = Some(t)]],
          ret |-> "Ok"]

\* A bug finish_run could have: the result code is not stored.
finish_run_no_result(d, run_id, token, result, text, t) ==
    IF d.runs[run_id].build_token # Some(token)
    THEN [db |-> d, ret |-> "TokenInvalid"]
    ELSE IF d.runs[run_id].state # Started
    THEN [db |-> d, ret |-> "StateInvalid"]
    ELSE [db |-> [d EXCEPT !.runs[run_id] =
                    [@ EXCEPT !.state = IF result = Pass THEN Finished ELSE Error,
                              !.final_text = Some(text),
                              !.complete_time = Some(t)]],
          ret |-> "Ok"]

finish_run(d, run_id, token, result, text, t) ==
    IF d.runs[run_id].build_token # Some(token)
    THEN [db |-> d, ret |-> "TokenInvalid"]
    ELSE IF d.runs[run_id].state # Started
    THEN [db |-> d, ret |-> "StateInvalid"]
    ELSE [db |-> [d EXCEPT !.runs[run_id] =
                    [@ EXCEPT !.state = IF result = Pass THEN Finished ELSE Error,
                              !.build_result = Some(result),
                              !.final_text = Some(text),
                              !.complete_time = Some(t)]],
          ret |-> "Ok"]

\* record_metric: an upsert on (run_id, name) by the worker that holds the
\* run's build token, against the metrics table as CREATE_METRICS_TABLE made it.
record_metric(d, run_id, token, name, value) ==
    IF d.runs[run_id].build_token # Some(token)
    THEN [db |-> d, ret |-> "TokenInvalid"]
    ELSE IF "run_id" \notin MetricsColumns \/ MetricsUnique # {"run_id", "name"}
    THEN [db |-> d, ret |-> "no such column: run_id"]
    ELSE LET hit == {i \in Ids(d.metrics) :
                        d.metrics[i].run_id = run_id /\ d.metrics[i].name = name}
         IN IF hit # {}
            THEN [db |-> [d EXCEPT !.metrics =
                            [i \in Ids(d.metrics) |->
                                IF i \in hit THEN [d.metrics[i] EXCEPT !.value = value]
                                ELSE d.metrics[i]]],
                  ret |-> "Ok"]
            ELSE [db |-> [d EXCEPT !.metrics =
                            Append(@, [run_id |-> run_id, name |-> name, value |-> value])],
                  ret |-> "Ok"]

\* A bug new_repo could have: the unique index is not there.
new_repo_always_inserts(d, name) ==
    [db |-> [d EXCEPT !.repos =
                Append(@, [repo_name |-> name, default_run_preference |-> None])],
     ret |-> "Ok", repo_id |-> Len(d.repos) + 1]

\* repo_names is a unique index on repos(repo_name).
new_repo(d, name) ==
    IF IsSome(repo_id_by_name(d, name))
    THEN [db |-> d, ret |-> "UNIQUE constraint failed", repo_id |-> 0]
    ELSE [db |-> [d EXCEPT !.repos =
                    Append(@, [repo_name |-> name, default_run_preference |-> None])],
          ret |-> "Ok", repo_id |-> Len(d.repos) + 1]

new_remote(d, repo_id, path, kind, config) ==
    [db |-> [d EXCEPT !.remotes =
                Append(@, [repo_id |-> repo_id, remote_path |-> path, remote_api |-> kind,
                           remote_git_url |-> GitUrl(path),
                           notifier_config_path |-> config])],
     remote_id |-> Len(d.remotes) + 1]

\* notifiers_by_repo: the repo's remotes, each with its config file's shape.
notifiers_by_repo(d, repo_id) ==
    LET idx == {i \in Ids(d.remotes) : d.remotes[i].repo_id = repo_id}
        F[n \in 0..Len(d.remotes)] ==
            IF n = 0 THEN <<>>
            ELSE IF n \in idx
                 THEN Append(F[n - 1],
                             [remote_path |-> d.remotes[n].remote_path,
                              notifier |-> FileShape(d.remotes[n].notifier_config_path)])
                 ELSE F[n - 1]
    IN F[Len(d.remotes)]

----------------------------------------------------------------------------
\* The server: webhook ingress (src/src/main.rs).

\* const PSKS: &'static [&'static [u8]] = &[];
PSKS == {}

\* HMAC-SHA256 of a body under a key (collision-free).
Hmac(body, key) == [over |-> body, key |-> key]

\* A request body: whether it is JSON at all, the shape parse_push_event
\* finds in it, and the fields of a push.
BadJsonBody == [json |-> FALSE, shape |-> "-", after |-> "-", full_name |-> "-", email |-> "-"]
PushBody(sha, path, email) ==
    [json |-> TRUE, shape |-> "push", after |-> sha, full_name |-> path, email |-> email]
\* JSON bodies that are no push: `pusher` left out, `after` a number.
BadShapeBodies ==
    {[json |-> TRUE, shape |-> sh, after |-> "abc", full_name |-> "alice/foo",
      email |-> "dev@example.org"] : sh \in {"no pusher", "after is a number"}}
Bodies ==
    {BadJsonBody} \cup BadShapeBodies
    \cup {PushBody(s, p, e) : s \in Shas, p \in Paths, e \in Emails}

\* parse_push_event: Ok, or the GithubHookError of the first field that fails.
parse_push_event(body) ==
    CASE body.shape = "push" -> [ok |-> TRUE, err |-> <<>>]
      [] body.shape = "not an object" -> [ok |-> FALSE, err |-> <<"BodyNotObject">>]
      [] body.shape = "after is a number" ->
            [ok |-> FALSE, err |-> <<"BadType", "after", "str">>]
      [] body.shape = "no pusher" -> [ok |-> FALSE, err |-> <<"MissingElement", "pusher">>]

\* Keys a sender may sign with: a configured webhook_token, and a stranger's.
Keys == {"hunter2", "s3cret", "wrong"}
SigHeaders(body) ==
    {[hdr |-> "absent", mac |-> Hmac(body, "-")], [hdr |-> "badhex", mac |-> Hmac(body, "-")]}
    \cup {[hdr |-> "hex", mac |-> Hmac(body, k)] : k \in Keys}
EventKinds == {None, Some("push"), Some("status"), Some("ping")}
Requests ==
    UNION {{[body |-> b, sig |-> s, kind |-> k] : s \in SigHeaders(b), k \in EventKinds} :
            b \in Bodies}
\* The requests sent to the ingress: a body that is JSON but no push comes
\* as a push event.
IngressRequests ==
    {r \in Requests : r.body.shape \in {"-", "push"} \/ r.kind = Some("push")}
\* Push deliveries signed with a webhook_token of the config directory.
SignedPushes ==
    {r \in Requests : r.body.json /\ r.body.shape = "push" /\ r.kind = Some("push")
                        /\ r.sig.hdr = "hex" /\ r.sig.mac.key = "hunter2"}

\* A bug the PSK loop could have: hmac_ok starts out true.
HmacOkUnchecked(req) == TRUE

\* for psk in PSKS.iter() { ... if decoded == result { hmac_ok = true; break; } }
HmacOk(req) == \E psk \in PSKS : req.sig.mac = Hmac(req.body, psk)

\* The statuses a loop over the repo's notifiers sends when the first `good`
\* upstream posts succeed: an Email notifier panics, a failed post panics.
NotifyAll(notifiers, sha, good) ==
    LET n == Len(notifiers)
        bad == {i \in 1..n : notifiers[i].notifier # "GitHub" \/ i > good}
        stop == IF bad = {} THEN n + 1 ELSE CHOOSE i \in bad : \A j \in bad : i <= j
    IN [sent |-> {[remote_path |-> notifiers[i].remote_path, sha |-> sha, state |-> "pending"] :
                    i \in {k \in 1..n : k <= stop /\ notifiers[k].notifier = "GitHub"}},
        panicked |-> stop <= n]

process_push_event(d, ob, body, t, good) ==
    LET sha == body.after
        remote == RemoteByGitUrl(d, GitUrl(body.full_name))
    IN IF IsSome(CommitToId(d, sha))
       THEN [db |-> d, outbox |-> ob, resp |-> Some(200), text |-> ""]
       ELSE IF ~IsSome(remote)
       THEN [db |-> d, outbox |-> ob, resp |-> Some(404), text |-> ""]
       ELSE LET remote_id == Unwrap(remote)
                repo_id == d.remotes[remote_id].repo_id
                j == new_job(d, remote_id, sha, Some(body.email), None)
                n == NotifyAll(notifiers_by_repo(j.db, repo_id), sha, good)
            IN [db |-> j.db, outbox |-> ob \cup n.sent,
                resp |-> IF n.panicked THEN None ELSE Some(200), text |-> ""]

\* resp None: the handler unwound and sent nothing.
handle_github_event(d, ob, kind, body, t, good) ==
    IF kind = "push"
    THEN IF ~parse_push_event(body).ok
         THEN [db |-> d, outbox |-> ob, resp |-> None, text |-> ""]
         ELSE LET res == process_push_event(d, ob, body, t, good)
              IN [db |-> res.db, outbox |-> res.outbox,
                  resp |-> IF res.resp = None THEN None ELSE Some(200),
                  text |-> IF res.resp = None THEN "" ELSE "ok"]
    ELSE IF kind = "status"
    THEN [db |-> d, outbox |-> ob, resp |-> Some(200), text |-> "ok"]
    ELSE [db |-> d, outbox |-> ob, resp |-> Some(200), text |-> ""]

handle_repo_event(d, ob, req, t, good) ==
    IF ~req.body.json THEN [db |-> d, outbox |-> ob, resp |-> Some(400), text |-> ""]
    ELSE IF req.sig.hdr = "absent"
    THEN [db |-> d, outbox |-> ob, resp |-> Some(400), text |-> ""]
    ELSE IF PSKS # {} /\ req.sig.hdr = "badhex"
    THEN [db |-> d, outbox |-> ob, resp |-> None, text |-> ""]
    ELSE IF ~HmacOk(req) THEN [db |-> d, outbox |-> ob, resp |-> Some(400), text |-> ""]
    ELSE IF req.kind = None THEN [db |-> d, outbox |-> ob, resp |-> Some(400), text |-> ""]
    ELSE handle_github_event(d, ob, Unwrap(req.kind), req.body, t, good)

\* The status text handle_commit_status renders for a JobState.
StatusText(state) ==
    CASE state \in {"Pending", "Started"} -> "pending"
      [] state = "Complete" -> "pass"
      [] state = "Error" -> "pass"
      [] state = "Invalid" -> "(server error)"

\* select id, repo_id from remotes where remote_path=?1 (first row)
RemoteByPath(d, path) ==
    LET hits == {i \in Ids(d.remotes) : d.remotes[i].remote_path = path}
    IN IF hits = {} THEN None
       ELSE Some(CHOOSE i \in hits : \A j \in hits : i <= j)

\* GET /:owner/:repo/:sha.  resp None: the handler unwound (a failed
\* .expect("can query")) and the connection got no answer from it.
handle_commit_status(d, remote_path, sha) ==
    LET commit_id == CommitToId(d, sha)
        jobs == JobByCommitId(d, Unwrap(commit_id))
    IN IF ~IsSome(commit_id)
       THEN [resp |-> Some(404), shown |-> "no such commit"]
       ELSE IF ~IsSome(RemoteByPath(d, remote_path))
       THEN [resp |-> None, shown |-> "-"]
       ELSE IF "state" \notin JobsColumns \/ jobs = {}
       THEN [resp |-> None, shown |-> "-"]
       ELSE [resp |-> Some(200),
             shown |-> StatusText(d.jobs[CHOOSE j \in jobs : \A k \in jobs : j <= k].state)]

----------------------------------------------------------------------------
Init ==
    /\ db = [repos |-> <<>>, remotes |-> <<>>, commits |-> <<>>, jobs |-> <<>>, runs |-> <<>>,
             metrics |-> <<>>]
    /\ now = 0
    /\ outbox = {}
    /\ handed = {}
    /\ current_step = <<>>
    /\ last = [op |-> "boot"]

Tick ==
    /\ now < MaxTime
    /\ now' = now + 1
    /\ last' = [op |-> "tick"]
    /\ UNCHANGED <<db, outbox, handed, current_step>>

\* POST /:owner/:repo
Webhook(req) ==
    \E good \in (IF HmacOk(req) THEN 0..MaxRemotes ELSE {0}) :
        LET res == handle_repo_event(db, outbox, req, now, good)
        IN /\ db' = res.db
           /\ outbox' = res.outbox
           /\ last' = [op |-> "webhook", req |-> req, good |-> good, resp |-> res.resp,
                       text |-> res.text]
           /\ UNCHANGED <<now, handed, current_step>>

\* A worker asks for work.
claim_pending_run(host) ==
    /\ \/ /\ PendingRuns(db, host) = {}
          /\ last' = [op |-> "claim", host |-> host, ret |-> None]
          /\ UNCHANGED <<db, handed>>
       \/ \E r \in PendingRuns(db, host) :
            /\ db' = ClaimRun(db, r, host, now)
            /\ handed' = handed \cup {<<r, host>>}
            /\ last' = [op |-> "claim", host |-> host, ret |-> Some(r)]
    /\ UNCHANGED <<now, outbox, current_step>>

\* A worker reports the end of a run.
FinishRun(run_id, token, result) ==
    LET res == finish_run(db, run_id, token, result, "done", now)
    IN /\ db' = res.db
       /\ last' = [op |-> "finish", run_id |-> run_id, token |-> token,
                   result |-> result, ret |-> res.ret]
       /\ UNCHANGED <<now, outbox, handed, current_step>>

\* The periodic task: Pending runs past create_time + run_timeout become Invalid.
SweepPending ==
    LET stale == {r \in ActiveRuns(db) :
                    /\ db.runs[r].state = Pending
                    /\ db.runs[r].create_time + Unwrap(db.runs[r].run_timeout) < now}
    IN /\ stale # {}
       /\ db' = [db EXCEPT !.runs =
                    [r \in Ids(db.runs) |->
                        IF r \in stale THEN [db.runs[r] EXCEPT !.state = Invalid]
                        ELSE db.runs[r]]]
       /\ last' = [op |-> "sweep", swept |-> stale]
       /\ UNCHANGED <<now, outbox, handed, current_step>>

\* A stuck Started run is given up (timeout/admin).
InvalidateRun(run_id) ==
    /\ db.runs[run_id].state = Started
    /\ db' = [db EXCEPT !.runs[run_id].state = Invalid]
    /\ last' = [op |-> "invalidate", run_id |-> run_id]
    /\ UNCHANGED <<now, outbox, handed, current_step>>

\* The operator gives a repo the default run preference "all" (a column of
\* the repos row; new_repo leaves it NULL).
SetRunPreference(repo_id) ==
    /\ repo_id \in Ids(db.repos)
    /\ db.repos[repo_id].default_run_preference = None
    /\ db' = [db EXCEPT !.repos[repo_id].default_run_preference = Some("all")]
    /\ last' = [op |-> "set run preference", repo_id |-> repo_id]
    /\ UNCHANGED <<now, outbox, handed, current_step>>

\* The periodic host-coverage task for one host: new_run with the host as
\* preference for every job JOBS_NEEDING_HOST_RUN answers.
HostCoverageSweep(host) ==
    LET need == JobsNeedingHostRun(db, host)
        F[n \in 0..Len(db.jobs)] ==
            IF n = 0 THEN db
            ELSE IF n \in need THEN new_run(F[n - 1], n, Some(host), now).db
            ELSE F[n - 1]
    IN /\ db' = F[Len(db.jobs)]
       /\ last' = [op |-> "host sweep", host |-> host, jobs |-> need]
       /\ UNCHANGED <<now, outbox, handed, current_step>>

\* A worker reports a metric of its run.
RecordMetric(run_id, token, name, value) ==
    LET res == record_metric(db, run_id, token, name, value)
    IN /\ db' = res.db
       /\ last' = [op |-> "record metric", run_id |-> run_id, token |-> token,
                   name |-> name, value |-> value, ret |-> res.ret]
       /\ UNCHANGED <<now, outbox, handed, current_step>>

\* GET /:owner/:repo/:sha
StatusPage(remote_path, sha) ==
    LET res == handle_commit_status(db, remote_path, sha)
    IN /\ last' = [op |-> "status", remote_path |-> remote_path, sha |-> sha,
                   resp |-> res.resp, shown |-> res.shown]
       /\ UNCHANGED <<db, now, outbox, handed, current_step>>

----------------------------------------------------------------------------
\* The operator CLI (src/ci-ctl/src/main.rs).  exit: "return" when main
\* returns, "panic" when it unwinds.

\* ci-ctl job list
JobList ==
    LET rows == SelectAllRunsWithJobInfo(db)
    IN /\ last' = [op |-> "job list", out |-> rows,
                   exit |-> IF rows = None THEN "panic" ELSE "return"]
       /\ UNCHANGED <<db, now, outbox, handed, current_step>>

\* ci-ctl job rerun <which>
JobRerun(which) ==
    /\ db' = new_run(db, which, None, now).db
    /\ last' = [op |-> "job rerun", which |-> which, exit |-> "return"]
    /\ UNCHANGED <<now, outbox, handed, current_step>>

\* A bug rerun-commit could have: the run goes to the first job of the table.
JobRerunCommitFirstJob(commit) ==
    LET job_id == job_for_commit(db, commit)
    IN /\ IF IsSome(job_id)
          THEN db' = new_run(db, 1, None, now).db
          ELSE db' = db
       /\ last' = [op |-> "job rerun-commit", commit |-> commit, job_id |-> job_id,
                   exit |-> "return"]
       /\ UNCHANGED <<now, outbox, handed, current_step>>

\* ci-ctl job rerun-commit <commit>
JobRerunCommit(commit) ==
    LET job_id == job_for_commit(db, commit)
    IN /\ IF IsSome(job_id)
          THEN db' = new_run(db, Unwrap(job_id), None, now).db
          ELSE db' = db
       /\ last' = [op |-> "job rerun-commit", commit |-> commit, job_id |-> job_id,
                   exit |-> "return"]
       /\ UNCHANGED <<now, outbox, handed, current_step>>

\* ci-ctl job create <remote_kind:repo_path> <commit> <pusher_email>
JobCreate(remote_kind, repo_path, commit, pusher_email) ==
    LET remote == remote_by_path_and_api(db, remote_kind, repo_path)
        rem == db.remotes[Unwrap(remote)]
        pref == db.repos[rem.repo_id].default_run_preference
        j == new_job(db, Unwrap(remote), commit, Some(pusher_email), pref)
    IN /\ IF ~IsSome(remote)
          THEN db' = db
          ELSE db' = new_run(j.db, j.job_id, None, now).db
       /\ last' = [op |-> "job create", remote_kind |-> remote_kind,
                   repo_path |-> repo_path, commit |-> commit, found |-> IsSome(remote),
                   was_new |-> IsSome(remote) /\ j.was_new,
                   job_id |-> IF IsSome(remote) THEN Some(j.job_id) ELSE None,
                   exit |-> "return"]
       /\ UNCHANGED <<now, outbox, handed, current_step>>

\* NotifierConfig::github_from_file / email_from_file
github_from_file(path) == FileShape(path) = "GitHub"
email_from_file(path) == FileShape(path) = "Email"

\* The check of the config file both add commands make for a remote kind:
\* "ok", or "panic" (a failed assert/unwrap, an unsupported kind).
LoadConfigFor(remote_kind, config) ==
    IF remote_kind = "github"
    THEN (IF github_from_file(config) THEN "ok" ELSE "panic")
    ELSE IF remote_kind = "github-email"
    THEN (IF email_from_file(config) THEN "ok" ELSE "panic")
    ELSE "panic"

\* The line add repo prints after the webhook bootstrap.
HookReport(hook) ==
    CASE hook = "present" -> "[+] webhook appears to already be present"
      [] hook = "created" -> "[+] created webhook"
      [] hook = "create failed" -> "[!] failed to create webhook"
      [] hook = "check failed" -> "[!] unable to check for presence of webhook"

\* A bug add repo could have: a failed webhook bootstrap undoes the rows.
AddRepoWithRemoteRollsBack(name, remote, remote_kind, config) ==
    IF remote_kind # "github"
    THEN /\ last' = [op |-> "add repo", name |-> name, ret |-> "unknown remote kind",
                     exit |-> "return"]
         /\ UNCHANGED <<db, now, outbox, handed, current_step>>
    ELSE LET r == new_repo(db, name)
         IN /\ IF r.ret # "Ok"
               THEN /\ db' = db
                    /\ last' = [op |-> "add repo", name |-> name, ret |-> r.ret,
                                exit |-> "return"]
               ELSE IF FileShape(config) # "GitHub"
               THEN /\ db' = r.db
                    /\ last' = [op |-> "add repo", name |-> name, ret |-> "Ok",
                                exit |-> "panic"]
               ELSE \E hook \in HookOutcomes :
                    /\ db' = IF hook \in {"create failed", "check failed"} THEN db
                             ELSE new_remote(r.db, r.repo_id, remote, remote_kind, config).db
                    /\ last' = [op |-> "add repo", name |-> name, ret |-> "Ok",
                                webhook |-> hook, report |-> HookReport(hook),
                                exit |-> "return"]
            /\ UNCHANGED <<now, outbox, handed, current_step>>

\* ci-ctl add repo <name>   (no remote given)
AddRepo(name) ==
    LET r == new_repo(db, name)
    IN /\ db' = r.db
       /\ last' = [op |-> "add repo", name |-> name, ret |-> r.ret, exit |-> "return"]
       /\ UNCHANGED <<now, outbox, handed, current_step>>

\* ci-ctl add repo <name> <remote> <remote_kind> <config>
AddRepoWithRemote(name, remote, remote_kind, config) ==
    IF remote_kind # "github"
    THEN /\ last' = [op |-> "add repo", name |-> name, ret |-> "unknown remote kind",
                     exit |-> "return"]
         /\ UNCHANGED <<db, now, outbox, handed, current_step>>
    ELSE LET r == new_repo(db, name)
         IN /\ IF r.ret # "Ok"
               THEN /\ db' = db
                    /\ last' = [op |-> "add repo", name |-> name, ret |-> r.ret,
                                exit |-> "return"]
               ELSE IF LoadConfigFor(remote_kind, config) = "panic"
               THEN /\ db' = r.db
                    /\ last' = [op |-> "add repo", name |-> name, ret |-> "Ok",
                                exit |-> "panic"]
               ELSE /\ db' = new_remote(r.db, r.repo_id, remote, remote_kind, config).db
                    /\ \E hook \in HookOutcomes :
                            last' = [op |-> "add repo", name |-> name, ret |-> "Ok",
                                     webhook |-> hook, report |-> HookReport(hook),
                                     exit |-> "return"]
            /\ UNCHANGED <<now, outbox, handed, current_step>>

\* ci-ctl add repo <name> with one or two of <remote> <remote_kind> <config>
AddRepoPartial(name) ==
    /\ last' = [op |-> "add repo", name |-> name, ret |-> "incomplete remote triple",
                exit |-> "return"]
    /\ UNCHANGED <<db, now, outbox, handed, current_step>>

\* A bug add remote could have: the config file is not loaded before the insert.
AddRemoteUnchecked(repo_name, remote, remote_kind, config) ==
    LET repo_id == repo_id_by_name(db, repo_name)
    IN /\ IF ~IsSome(repo_id)
          THEN /\ db' = db
               /\ last' = [op |-> "add remote", repo_name |-> repo_name,
                           ret |-> "does not exist", exit |-> "return"]
          ELSE /\ db' = new_remote(db, Unwrap(repo_id), remote, remote_kind, config).db
               /\ last' = [op |-> "add remote", repo_name |-> repo_name,
                           ret |-> "Ok", exit |-> "return"]
       /\ UNCHANGED <<now, outbox, handed, current_step>>

\* ci-ctl add remote <repo_name> <remote> <remote_kind> <config>
AddRemote(repo_name, remote, remote_kind, config) ==
    LET repo_id == repo_id_by_name(db, repo_name)
    IN /\ IF ~IsSome(repo_id)
          THEN /\ db' = db
               /\ last' = [op |-> "add remote", repo_name |-> repo_name,
                           ret |-> "does not exist", exit |-> "return"]
          ELSE IF LoadConfigFor(remote_kind, config) = "panic"
          THEN /\ db' = db
               /\ last' = [op |-> "add remote", repo_name |-> repo_name,
                           ret |-> "bad config", exit |-> "panic"]
          ELSE /\ db' = new_remote(db, Unwrap(repo_id), remote, remote_kind, config).db
               /\ last' = [op |-> "add remote", repo_name |-> repo_name,
                           ret |-> "Ok", exit |-> "return"]
       /\ UNCHANGED <<now, outbox, handed, current_step>>

\* ci-ctl [db_path] [config_path] validate
Validate(config_path) ==
    /\ last' = [op |-> "validate", config_path |-> config_path, out |-> "ok",
                exit |-> "return"]
    /\ UNCHANGED <<db, now, outbox, handed, current_step>>

----------------------------------------------------------------------------
\* State integers read back from the store.

\* A u8 column value.
StoredBytes == 0..255

\* enum RunState { Pending = 0, Started = 1, Finished = 2, Error = 3, Invalid = 4 }
RunStateNames == <<"Pending", "Started", "Finished", "Error", "Invalid">>
\* `state as u8`: the value the enum is stored as.
RunStateAsU8(name) == CHOOSE v \in 0..4 : RunStateNames[v + 1] = name

\* impl TryFrom<u8> for RunState
RunStateTryFrom(value) ==
    CASE value = 0 -> [ok |-> TRUE, state |-> "Pending"]
      [] value = 1 -> [ok |-> TRUE, state |-> "Started"]
      [] value = 2 -> [ok |-> TRUE, state |-> "Finished"]
      [] value = 3 -> [ok |-> TRUE, state |-> "Error"]
      [] value = 4 -> [ok |-> TRUE, state |-> "Invalid"]
      [] OTHER -> [ok |-> FALSE, state |-> "invalid job state"]

\* The server's JobState, in the order handle_commit_status matches it.
JobStateNames == <<"Pending", "Started", "Complete", "Error", "Invalid">>

\* unsafe { std::mem::transmute(state) } of a u8 to JobState: the variant of
\* that discriminant; for a byte that is no discriminant the behaviour is
\* undefined: any arm of the match may run, or the handler may crash.
TransmuteJobState(value) ==
    IF value \in 0..4 THEN {JobStateNames[value + 1]}
    ELSE {JobStateNames[i] : i \in 1..5} \cup {"crash"}

\* A row's state read through RunState::try_from.
ReadRunState(value) ==
    /\ last' = [op |-> "run state read", value |-> value, out |-> RunStateTryFrom(value)]
    /\ UNCHANGED <<db, now, outbox, handed, current_step>>

\* handle_commit_status from the jobs row on: the state byte is transmuted
\* and the status of the variant is rendered.
ReadJobStateForStatus(value) ==
    \E st \in TransmuteJobState(value) :
        /\ last' = [op |-> "status read", value |-> value, state |-> st,
                    shown |-> IF st = "crash" THEN "-" ELSE StatusText(st)]
        /\ UNCHANGED <<db, now, outbox, handed, current_step>>

----------------------------------------------------------------------------
\* The notifiers (src/src/notifier.rs).

\* Strings as sequences of characters: a plain one, and the two JSON escapes.
Chars == {"a", "\"", "\\"}
Strs(n) == UNION {[1..k -> Chars] : k \in 0..n}

\* serde_json's string writer: a quote and a backslash get a backslash before them.
RECURSIVE EscapeJson(_)
EscapeJson(str) ==
    IF str = <<>> THEN <<>>
    ELSE (IF Head(str) \in {"\"", "\\"} THEN <<"\\", Head(str)>> ELSE <<Head(str)>>)
         \o EscapeJson(Tail(str))

\* serde_json's string reader: a backslash takes the next character as it
\* is; a bare quote or a backslash at the end is no string.
RECURSIVE UnescapeJson(_)
UnescapeJson(text) ==
    IF text = <<>> THEN Some(<<>>)
    ELSE IF Head(text) = "\""
    THEN None
    ELSE IF Head(text) = "\\"
    THEN (IF Len(text) < 2 \/ ~IsSome(UnescapeJson(Tail(Tail(text)))) THEN None
          ELSE Some(<<text[2]>> \o Unwrap(UnescapeJson(Tail(Tail(text))))))
    ELSE (IF ~IsSome(UnescapeJson(Tail(text))) THEN None
          ELSE Some(<<Head(text)>> \o Unwrap(UnescapeJson(Tail(text)))))

\* enum NotifierConfig { GitHub { token }, Email { username, password, mailserver, from, to } }
GitHubFields == {"token"}
EmailFields == {"username", "password", "mailserver", "from", "to"}
NotifierConfigs ==
    {[variant |-> "GitHub", fields |-> [f \in GitHubFields |-> t]] : t \in Strs(MaxStrLen)}
    \cup {[variant |-> "Email", fields |-> fs] : fs \in [EmailFields -> Strs(1)]}

\* #[derive(Serialize)] #[serde(untagged)]: the variant's fields, no tag.
Serialize(config) == [f \in DOMAIN config.fields |-> EscapeJson(config.fields[f])]

\* The variant's fields read out of a JSON object, other keys ignored.
ReadVariant(variant, names, obj) ==
    IF names \subseteq DOMAIN obj /\ \A f \in names : IsSome(UnescapeJson(obj[f]))
    THEN Some([variant |-> variant, fields |-> [f \in names |-> Unwrap(UnescapeJson(obj[f]))]])
    ELSE None

\* A bug the enum could have: GitHub's token is optional, so that the
\* first variant takes every object.
DeserializeTokenOptional(obj) ==
    Some([variant |-> "GitHub",
          fields |-> [f \in GitHubFields |->
                        IF f \in DOMAIN obj /\ IsSome(UnescapeJson(obj[f]))
                        THEN Unwrap(UnescapeJson(obj[f])) ELSE <<>>]])

\* #[derive(Deserialize)] #[serde(untagged)]: the first variant, in the order
\* of declaration, that the object fits; None when none does.
Deserialize(obj) ==
    IF IsSome(ReadVariant("GitHub", GitHubFields, obj))
    THEN ReadVariant("GitHub", GitHubFields, obj)
    ELSE ReadVariant("Email", EmailFields, obj)

\* What upstream answers to the POST of a commit status: a response with a
\* status code (the codes around 200 and 201, and the common others), or no
\* response at all.
StatusCodes == (198..206) \cup {100, 301, 304, 400, 401, 403, 404, 422, 500, 503}
Replies == {[ok |-> TRUE, status |-> c] : c \in StatusCodes} \cup {[ok |-> FALSE, status |-> 0]}

\* A bug tell_job_status could have: only 200 is taken for success.
tell_job_status_only_200(notifier, state, reply) ==
    IF notifier # "GitHub" THEN [posted |-> None, ret |-> [ok |-> FALSE, err |-> "panic"]]
    ELSE [posted |-> Some(state),
          ret |-> IF reply.ok /\ reply.status = 200 THEN [ok |-> TRUE, err |-> "-"]
                  ELSE [ok |-> FALSE, err |-> "bad response"]]

\* RemoteNotifier::tell_job_status: the state posted and the Result.
tell_job_status(notifier, state, reply) ==
    IF notifier # "GitHub" THEN [posted |-> None, ret |-> [ok |-> FALSE, err |-> "panic"]]
    ELSE [posted |-> Some(state),
          ret |-> IF ~reply.ok THEN [ok |-> FALSE, err |-> "failure sending request"]
                  ELSE IF reply.status = 200 \/ reply.status = 201
                  THEN [ok |-> TRUE, err |-> "-"]
                  ELSE [ok |-> FALSE, err |-> "bad response", status |-> reply.status]]

\* The statuses a post adds to those sent upstream.
Posted(res, remote_path, sha) ==
    IF res.posted = None THEN {}
    ELSE {[remote_path |-> remote_path, sha |-> sha, state |-> Unwrap(res.posted)]}

\* RemoteNotifier::tell_pending_job
tell_pending_job(notifier, remote_path, sha, reply) ==
    LET res == tell_job_status(notifier, "pending", reply)
    IN /\ outbox' = outbox \cup Posted(res, remote_path, sha)
       /\ last' = [op |-> "tell pending", notifier |-> notifier, reply |-> reply,
                   posted |-> res.posted, ret |-> res.ret]
       /\ UNCHANGED <<db, now, handed, current_step>>

\* RemoteNotifier::tell_complete_job; desc is Ok(text) or Err(text)
tell_complete_job(notifier, remote_path, sha, desc, reply) ==
    LET res == tell_job_status(notifier, IF desc.ok THEN "success" ELSE "failure", reply)
    IN /\ outbox' = outbox \cup Posted(res, remote_path, sha)
       /\ last' = [op |-> "tell complete", notifier |-> notifier, desc |-> desc,
                   reply |-> reply, posted |-> res.posted, ret |-> res.ret]
       /\ UNCHANGED <<db, now, handed, current_step>>

\* serde_json::to_string of a config
WriteConfig(config) ==
    /\ last' = [op |-> "serialize", config |-> config, json |-> Serialize(config)]
    /\ UNCHANGED <<db, now, outbox, handed, current_step>>

\* serde_json::from_str of the text written last
ReadConfig ==
    /\ last.op = "serialize"
    /\ last' = [op |-> "deserialize", config |-> last.config, json |-> last.json,
                out |-> Deserialize(last.json)]
    /\ UNCHANGED <<db, now, outbox, handed, current_step>>

----------------------------------------------------------------------------
\* The runner's lua exports for build steps (src/src/lua/mod.rs, mod step).
StepNames == {"fetch", "build", "test"}

\* step.start(name)
step_start(name) ==
    /\ current_step' = <<name>>
    /\ last' = [op |-> "step start", name |-> name]
    /\ UNCHANGED <<db, now, outbox, handed>>

\* step.push(name)
step_push(name) ==
    /\ current_step' = Append(current_step, name)
    /\ last' = [op |-> "step push", name |-> name]
    /\ UNCHANGED <<db, now, outbox, handed>>

\* A bug step.advance could have: the top of the stack is not popped.
step_advance_no_pop(name) ==
    /\ current_step' = Append(current_step, name)
    /\ last' = [op |-> "step advance", name |-> name]
    /\ UNCHANGED <<db, now, outbox, handed>>

\* step.advance(name): Vec::pop of an empty stack is None and changes nothing.
step_advance(name) ==
    /\ current_step' = Append(IF current_step = <<>> THEN <<>>
                              ELSE SubSeq(current_step, 1, Len(current_step) - 1), name)
    /\ last' = [op |-> "step advance", name |-> name]
    /\ UNCHANGED <<db, now, outbox, handed>>

----------------------------------------------------------------------------
\* The tokens a worker may present: every run's own, and one no run was given.
Tokens == {FreshToken(r) : r \in 1..(MaxLiveRuns + 1)}

\* The tables stay within the model's bounds.
Bounded(d) ==
    /\ Len(d.repos) <= MaxRepos
    /\ Len(d.remotes) <= MaxRemotes
    /\ Len(d.jobs) <= MaxJobs
    /\ Len(d.runs) <= MaxRuns

\* The store under the operator's commands and signed push deliveries.
Next ==
    \/ \E req \in SignedPushes : Webhook(req) /\ Bounded(db')
    \/ \E w \in 1..MaxJobs : JobRerun(w) /\ Bounded(db')
    \/ \E c \in Shas : JobRerunCommit(c) /\ Bounded(db')
    \/ \E k \in {"github", "gitlab"}, p \in Paths, c \in Shas, e \in Emails :
            JobCreate(k, p, c, e) /\ Bounded(db')
    \/ AddRepo("foo") /\ Bounded(db')
    \/ \E p \in Paths, k \in {"github", "gitlab"}, c \in {"gh.json", "bad.json"} :
            AddRepoWithRemote("foo", p, k, c) /\ Bounded(db')
    \/ \E n \in RepoNames, p \in Paths, k \in {"github", "gitlab"} :
            AddRemote(n, p, k, "gh.json") /\ Bounded(db')

Spec == Init /\ [][Next]_vars

\* The webhook ingress: every request, against the remotes and jobs the
\* operator set up for alice/foo (bob/bar stays unregistered).
NextIngress ==
    \/ \E req \in IngressRequests : Webhook(req) /\ Bounded(db')
    \/ \E c \in Shas, e \in Emails : JobCreate("github", "alice/foo", c, e) /\ Bounded(db')
    \/ \E c \in {"gh.json", "gh2.json"} :
            AddRepoWithRemote("foo", "alice/foo", "github", c) /\ Bounded(db')
    \/ \E c \in {"gh.json", "gh2.json"} :
            AddRemote("foo", "alice/foo", "github", c) /\ Bounded(db')

SpecIngress == Init /\ [][NextIngress]_vars

\* The runs of one remote's job under the workers and the periodic sweep.
NextRuns ==
    \/ Tick
    \/ AddRepoWithRemote("foo", "alice/foo", "github", "gh.json")
    \/ \E e \in Emails : JobCreate("github", "alice/foo", "abc", e) /\ Len(db'.runs) <= MaxLiveRuns
    \/ JobRerun(1) /\ Len(db'.runs) <= MaxLiveRuns
    \/ \E h \in Hosts : claim_pending_run(h)
    \/ \E r \in Ids(db.runs), tk \in Tokens, res \in {Pass, Fail} : FinishRun(r, tk, res)
    \/ SweepPending
    \/ \E r \in Ids(db.runs) : InvalidateRun(r)

SpecRuns == Init /\ [][NextRuns]_vars

\* What the runs of alice/foo's job report, what the status page shows of
\* them and what validate says of the remote (bob/bar stays unregistered,
\* sha def is never built).
NextReport ==
    \/ AddRepoWithRemote("foo", "alice/foo", "github", "gh.json") /\ Bounded(db')
    \/ \E e \in Emails : JobCreate("github", "alice/foo", "abc", e) /\ Bounded(db')
    \/ JobRerunCommit("abc") /\ Bounded(db')
    \/ claim_pending_run(1)
    \/ \E r \in Ids(db.runs), res \in {Pass, Fail} : FinishRun(r, FreshToken(r), res)
    \/ \E r \in Ids(db.runs) : InvalidateRun(r)
    \/ \E r \in Ids(db.runs) :
            \E tk \in {FreshToken(r), FreshToken(0)}, n \in MetricNames, v \in MetricValues :
                RecordMetric(r, tk, n, v)
    \/ \E p \in Paths, s \in Shas : StatusPage(p, s)
    \/ \E dir \in ConfigDirs : Validate(dir)
    \/ JobList

SpecReport == Init /\ [][NextReport]_vars

\* The operator's commands, well-formed or not, for two repo names.
NextAdmin ==
    \/ \E n \in RepoNames : AddRepo(n) /\ Bounded(db')
    \/ \E n \in RepoNames : AddRepoPartial(n)
    \/ \E n \in RepoNames, k \in {"github", "gitlab"}, c \in {"gh.json", "bad.json"} :
            AddRepoWithRemote(n, "alice/foo", k, c) /\ Bounded(db')
    \/ \E n \in RepoNames, k \in {"github", "gitlab"}, c \in {"gh.json", "bad.json"} :
            AddRemote(n, "bob/bar", k, c) /\ Bounded(db')
    \/ \E p \in Paths, e \in Emails : JobCreate("github", p, "abc", e) /\ Bounded(db')
    \/ \E c \in Shas : JobRerunCommit(c) /\ Bounded(db')

SpecAdmin == Init /\ [][NextAdmin]_vars

\* Runs with and without a host preference under the claims of two hosts.
NextClaim ==
    \/ AddRepoWithRemote("foo", "alice/foo", "github", "gh.json")
    \/ \E e \in Emails :
            JobCreate("github", "alice/foo", "abc", e) /\ Bounded(db')
    \/ SetRunPreference(1)
    \/ \E h \in Hosts : HostCoverageSweep(h) /\ Bounded(db')
    \/ \E h \in Hosts : claim_pending_run(h)

SpecClaim == Init /\ [][NextClaim]_vars

\* The periodic sweep, scheduled fairly, against the clock and one claiming host.
NextSweep ==
    \/ Tick
    \/ AddRepoWithRemote("foo", "alice/foo", "github", "gh.json")
    \/ \E e \in Emails :
            JobCreate("github", "alice/foo", "abc", e) /\ Len(db'.runs) <= MaxLiveRuns + 1
    \/ claim_pending_run(1)
    \/ SweepPending

SpecSweep == Init /\ [][NextSweep]_vars /\ WF_vars(SweepPending)

\* Every byte a state column can hold, read by both readers.
NextState ==
    \/ \E v \in StoredBytes : ReadRunState(v)
    \/ \E v \in StoredBytes : ReadJobStateForStatus(v)

SpecState == Init /\ [][NextState]_vars

\* Notifier configs written to JSON and read back.
NextConfig ==
    \/ \E config \in NotifierConfigs : WriteConfig(config)
    \/ ReadConfig

SpecConfig == Init /\ [][NextConfig]_vars

\* The statuses a notifier posts upstream and what upstream answers.
NextNotifier ==
    \/ \E n \in {"GitHub", "Email"}, reply \in Replies :
            tell_pending_job(n, "alice/foo", "abc", reply)
    \/ \E n \in {"GitHub", "Email"}, reply \in Replies :
            \E desc \in {[ok |-> TRUE, text |-> "passed"], [ok |-> FALSE, text |-> "failed"]} :
                tell_complete_job(n, "alice/foo", "abc", desc, reply)

SpecNotifier == Init /\ [][NextNotifier]_vars

\* A build script's step calls, to a depth of MaxDepth.
NextStep ==
    \/ \E n \in StepNames : step_start(n)
    \/ \E n \in StepNames : step_push(n) /\ Len(current_step') <= MaxDepth
    \/ \E n \in StepNames : step_advance(n)

SpecStep == Init /\ [][NextStep]_vars

----------------------------------------------------------------------------
\* What the specification of the system says of a webhook request.

\* The pre-shared keys configured at request time: the webhook_token of every
\* GitHub-style notifier config a remote of the store names.
ConfiguredPsks(d) ==
    {WebhookToken(d.remotes[i].notifier_config_path) :
        i \in {k \in Ids(d.remotes) : FileShape(d.remotes[k].notifier_config_path) = "GitHub"}}

\* The request carries X-Hub-Signature-256 = HMAC-SHA256(body, psk) for a configured psk.
SignedByConfigured(d, req) ==
    /\ req.sig.hdr = "hex"
    /\ \E psk \in ConfiguredPsks(d) : req.sig.mac = Hmac(req.body, psk)

\* An authenticated push delivery.
AuthenticPush(d, req) ==
    /\ req.body.json
    /\ req.body.shape = "push"
    /\ SignedByConfigured(d, req)
    /\ req.kind = Some("push")

RegisteredGithub(d, path) == IsSome(remote_by_path_and_api(d, "github", path))

JobsOf(d, remote_id, sha) ==
    {j \in Ids(d.jobs) :
        /\ d.jobs[j].remote_id = remote_id
        /\ d.jobs[j].commit_id \in {c \in Ids(d.commits) : d.commits[c] = sha}}

Counts(d) == <<Len(d.commits), Len(d.jobs), Len(d.runs)>>

----------------------------------------------------------------------------
\* C1: in every reachable store state there is at most one job row for a
\* remote and a commit; a job create for a pair that has a job adds none.
C1_JobUniquePerRemoteCommit ==
    \A i, j \in Ids(db.jobs) :
        (db.jobs[i].remote_id = db.jobs[j].remote_id
            /\ db.jobs[i].commit_id = db.jobs[j].commit_id) => i = j

\* C1 witness: job create ran for a registered remote and a sha that already
\* had its job, and a second remote has a job of its own.
C1_Witness ==
    /\ last.op = "job create" /\ last.found /\ ~last.was_new
    /\ Len(db.jobs) = 2
    /\ db.jobs[1].remote_id # db.jobs[2].remote_id

\* C2: once push deliveries signed with a configured webhook_token for a
\* registered remote have been handled, exactly one job row and exactly one
\* commit row exist for the pushed sha.
C2_OneJobOneCommitPerPushedSha ==
    (/\ last.op = "webhook"
     /\ AuthenticPush(db, last.req)
     /\ RegisteredGithub(db, last.req.body.full_name))
    => /\ Cardinality({c \in Ids(db.commits) : db.commits[c] = last.req.body.after}) = 1
       /\ Cardinality(JobsOf(db, Unwrap(remote_by_path_and_api(db, "github",
                                            last.req.body.full_name)),
                             last.req.body.after)) = 1

\* C3: an authenticated push delivery for a registered remote is answered 200,
\* and when the job of (remote, sha) is already there (the delivery is a
\* repeat) the numbers of commit, job and run rows stay as they were.
C3_RedeliveryChangesNothing ==
    [][(/\ last'.op = "webhook"
        /\ AuthenticPush(db, last'.req)
        /\ RegisteredGithub(db, last'.req.body.full_name))
       => /\ last'.resp = Some(200)
          /\ (JobsOf(db, Unwrap(remote_by_path_and_api(db, "github",
                                    last'.req.body.full_name)),
                     last'.req.body.after) # {}
                => Counts(db') = Counts(db))]_vars

\* C4: an authenticated push delivery for a registered remote with a sha the
\* store has not seen adds one commit row, one job row (remote, commit, pusher
\* email as source) and one Pending run of that job without host preference.
C4_FreshPushCreatesCommitJobRun ==
    [][(/\ last'.op = "webhook"
        /\ AuthenticPush(db, last'.req)
        /\ RegisteredGithub(db, last'.req.body.full_name)
        /\ ~IsSome(CommitToId(db, last'.req.body.after)))
       => /\ db'.commits = Append(db.commits, last'.req.body.after)
          /\ db'.jobs = Append(db.jobs,
                [remote_id |-> Unwrap(remote_by_path_and_api(db, "github",
                                        last'.req.body.full_name)),
                 commit_id |-> Len(db.commits) + 1,
                 source |-> Some(last'.req.body.email),
                 run_preferences |-> None])
          /\ Len(db'.runs) = Len(db.runs) + 1
          /\ db'.runs[Len(db'.runs)].job_id = Len(db'.jobs)
          /\ db'.runs[Len(db'.runs)].state = Pending
          /\ db'.runs[Len(db'.runs)].host_preference = None]_vars

\* C5: a run is handed to at most one caller, the caller it was handed to
\* finds it Started with its own host id and a build token, and a claim
\* answers None only when no Pending run is eligible for the caller.
C5_ClaimHandsRunToOneCaller ==
    /\ \A x, y \in handed : x[1] = y[1] => x = y
    /\ \A x \in handed :
        /\ db.runs[x[1]].state # Pending
        /\ db.runs[x[1]].host_id = Some(x[2])
        /\ db.runs[x[1]].build_token # None
    /\ (last.op = "claim" /\ last.ret # None) =>
        /\ db.runs[Unwrap(last.ret)].state = Started
        /\ db.runs[Unwrap(last.ret)].host_id = Some(last.host)
    /\ (last.op = "claim" /\ last.ret = None) =>
        ~\E r \in Ids(db.runs) :
            /\ db.runs[r].state = Pending
            /\ db.runs[r].host_preference \in {None, Some(last.host)}

\* C5 witness: one host was handed the run, the other host asked next and got None.
C5_Witness ==
    /\ last.op = "claim" /\ last.ret = None
    /\ Cardinality(handed) = 1
    /\ \E x \in handed : x[2] # last.host /\ db.runs[x[1]].state = Started

\* C6 as claimed: a run's state changes only along Pending->Started,
\* Started->Finished, Started->Error and Started->Invalid.
C6_OnlyClaimedEdges ==
    [][\A r \in Ids(db.runs) :
        db'.runs[r].state # db.runs[r].state =>
            <<db.runs[r].state, db'.runs[r].state>> \in
                {<<Pending, Started>>, <<Started, Finished>>, <<Started, Error>>,
                 <<Started, Invalid>>}]_vars

\* C6 amended: a run's state changes only along Pending->Started,
\* Pending->Invalid (the sweep of unclaimed runs), Started->Finished,
\* Started->Error and Started->Invalid; no run moves backward and a
\* Finished, Error or Invalid run never changes state again.
C6_RunStateEdges ==
    [][\A r \in Ids(db.runs) :
        db'.runs[r].state # db.runs[r].state =>
            <<db.runs[r].state, db'.runs[r].state>> \in
                {<<Pending, Started>>, <<Pending, Invalid>>, <<Started, Finished>>,
                 <<Started, Error>>, <<Started, Invalid>>}]_vars

\* C6 witness: the sweep moved an unclaimed run to Invalid.
C6_Witness ==
    /\ last.op = "sweep"
    /\ \E r \in last.swept : db.runs[r].state = Invalid /\ db.runs[r].host_id = None

\* C7: finish_run succeeds exactly when the token is the run's build token
\* and the run is Started; a wrong token gives TokenInvalid, a right token on
\* a run that is not Started gives StateInvalid, and a failed call leaves the
\* run's row as it was.
C7_FinishRunChecksTokenAndState ==
    [][last'.op = "finish" =>
        LET pre == db.runs[last'.run_id]
            tokenOk == pre.build_token = Some(last'.token)
        IN /\ (last'.ret = "Ok") <=> (tokenOk /\ pre.state = Started)
           /\ ~tokenOk => last'.ret = "TokenInvalid"
           /\ (tokenOk /\ pre.state # Started) => last'.ret = "StateInvalid"
           /\ last'.ret # "Ok" => db'.runs[last'.run_id] = pre
           /\ last'.ret = "Ok" =>
                db'.runs[last'.run_id].state =
                    (IF last'.result = Pass THEN Finished ELSE Error)]_vars

\* C7 witness: a Started run was finished with a token that is not its own.
C7_Witness ==
    /\ last.op = "finish" /\ last.ret = "TokenInvalid"
    /\ db.runs[last.run_id].state = Started
    /\ db.runs[last.run_id].build_token # None

\* C8: a request with a JSON body and an event kind passes authentication
\* exactly when it is signed with a configured webhook_token.
C8_AcceptedIffSignedByConfiguredPsk ==
    (last.op = "webhook" /\ last.req.body.json /\ last.req.kind # None)
    => ((last.resp # Some(400)) <=> SignedByConfigured(db, last.req))

C10_UnknownRemoteAnswered404 ==
    [][(/\ last'.op = "webhook"
        /\ AuthenticPush(db, last'.req)
        /\ ~RegisteredGithub(db, last'.req.body.full_name))
       => (last'.resp = Some(404) /\ db' = db)]_vars

----------------------------------------------------------------------------
\* Some notifier of the repo fails for a delivery: it is not a GitHub notifier,
\* or the upstream refuses its post (only the first `good` posts succeed).
NotifierFails(d, remote_id, good) ==
    LET ns == notifiers_by_repo(d, d.remotes[remote_id].repo_id)
    IN \E i \in 1..Len(ns) : ns[i].notifier # "GitHub" \/ i > good

\* C11: when a notifier fails while an authenticated push for a registered
\* remote and a fresh sha is handled, the answer is still 200 and the commit,
\* the job and the Pending run of the push are in the store.
C11_NotifierFailureKeepsAnswerAndRows ==
    [][(/\ last'.op = "webhook"
        /\ AuthenticPush(db, last'.req)
        /\ RegisteredGithub(db, last'.req.body.full_name)
        /\ ~IsSome(CommitToId(db, last'.req.body.after))
        /\ NotifierFails(db, Unwrap(remote_by_path_and_api(db, "github",
                                        last'.req.body.full_name)), last'.good))
       => /\ last'.resp = Some(200)
          /\ IsSome(CommitToId(db', last'.req.body.after))
          /\ \E j \in JobsOf(db', Unwrap(remote_by_path_and_api(db, "github",
                                            last'.req.body.full_name)),
                               last'.req.body.after) :
                \E r \in Ids(db'.runs) :
                    db'.runs[r].job_id = j /\ db'.runs[r].state = Pending]_vars

\* C12: for every run, create_time <= start_time when start_time is defined,
\* and when complete_time is defined so is start_time, with
\* start_time <= complete_time.
C12_RunTimestampsOrdered ==
    \A r \in Ids(db.runs) :
        /\ IsSome(db.runs[r].start_time) =>
                db.runs[r].create_time <= Unwrap(db.runs[r].start_time)
        /\ IsSome(db.runs[r].complete_time) =>
                /\ IsSome(db.runs[r].start_time)
                /\ Unwrap(db.runs[r].start_time) <= Unwrap(db.runs[r].complete_time)

\* C12 witness: a run created, claimed and finished at three different times.
C12_Witness ==
    \E r \in Ids(db.runs) :
        /\ IsSome(db.runs[r].start_time) /\ IsSome(db.runs[r].complete_time)
        /\ db.runs[r].create_time < Unwrap(db.runs[r].start_time)
        /\ Unwrap(db.runs[r].start_time) < Unwrap(db.runs[r].complete_time)

\* C13: a metric recorded by the worker holding the run's token leaves exactly
\* one row for (run_id, name), carrying the value recorded last, and leaves the
\* rows of every other run (of the same job or not) as they were.
C13_MetricUpsertPerRunAndName ==
    [][(/\ last'.op = "record metric"
        /\ db.runs[last'.run_id].build_token = Some(last'.token))
       => /\ IsSome(MetricsForRun(db', last'.run_id))
          /\ Cardinality({i \in Unwrap(MetricsForRun(db', last'.run_id)) :
                            db'.metrics[i].name = last'.name}) = 1
          /\ \A i \in Unwrap(MetricsForRun(db', last'.run_id)) :
                db'.metrics[i].name = last'.name => db'.metrics[i].value = last'.value
          /\ \A r \in Ids(db.runs) \ {last'.run_id} :
                /\ MetricsForRun(db', r) = MetricsForRun(db, r)
                /\ \A i \in Unwrap(MetricsForRun(db, r)) : db'.metrics[i] = db.metrics[i]]_vars

\* C14: after new_job(remote, sha, ...) ran (here under job create),
\* job_for_commit(sha) answers the job id new_job returned, other remotes'
\* jobs for the sha notwithstanding.
C14_JobForCommitFindsNewJob ==
    (last.op = "job create" /\ last.found)
    => job_for_commit(db, last.commit) = last.job_id

\* C15: job rerun-commit for a sha that has a job appends one Pending run of
\* a job of that sha and leaves the jobs, the commits and the runs that were
\* there as they were.
C15_RerunCommitAddsOnePendingRun ==
    [][(last'.op = "job rerun-commit" /\ IsSome(job_for_commit(db, last'.commit)))
       => /\ db'.jobs = db.jobs
          /\ db'.commits = db.commits
          /\ db'.repos = db.repos /\ db'.remotes = db.remotes
          /\ Len(db'.runs) = Len(db.runs) + 1
          /\ SubSeq(db'.runs, 1, Len(db.runs)) = db.runs
          /\ db'.runs[Len(db'.runs)].state = Pending
          /\ db'.runs[Len(db'.runs)].job_id \in Ids(db.jobs)
          /\ db.commits[db.jobs[db'.runs[Len(db'.runs)].job_id].commit_id]
                = last'.commit]_vars

\* C15 witness: rerun-commit gave the second job (another sha has the first)
\* its second run, a Pending one.
C15_Witness ==
    /\ last.op = "job rerun-commit" /\ last.job_id = Some(2)
    /\ Len(db.jobs) = 2
    /\ db.jobs[1].commit_id # db.jobs[2].commit_id
    /\ Cardinality({r \in Ids(db.runs) : db.runs[r].job_id = 2}) = 2
    /\ db.runs[Len(db.runs)].job_id = 2 /\ db.runs[Len(db.runs)].state = Pending

\* C16: job rerun <run_id> for an existing run appends one Pending run whose
\* job_id is the job_id of that run.
C16_RerunTargetsTheRunsJob ==
    [][(last'.op = "job rerun" /\ last'.which \in Ids(db.runs))
       => /\ Len(db'.runs) = Len(db.runs) + 1
          /\ db'.runs[Len(db'.runs)].state = Pending
          /\ db'.runs[Len(db'.runs)].job_id = db.runs[last'.which].job_id]_vars

\* The job the status page is about, and the run of it created last.
PageJobs(d, remote_path, sha) ==
    {j \in Ids(d.jobs) :
        /\ d.remotes[d.jobs[j].remote_id].remote_path = remote_path
        /\ d.commits[d.jobs[j].commit_id] = sha}
NewestRun(d, job_id) ==
    LET rows == {r \in Ids(d.runs) : d.runs[r].job_id = job_id}
    IN CHOOSE r \in rows : \A q \in rows : q <= r
\* The status the page is to show for a run.
ExpectedStatus(run) ==
    CASE run.state \in {Pending, Started} -> "pending"
      [] run.state = Finished /\ run.build_result = Some(Pass) -> "pass"
      [] run.state = Finished /\ run.build_result # Some(Pass) -> "fail"
      [] run.state = Error -> "fail"
      [] run.state = Invalid -> "server error"

\* C17: the status page of (owner, repo, sha) is answered 200 and shows
\* "pending" for a Pending or Started representative run, "pass" for Finished
\* with pass, "fail" for Finished with fail or Error, "server error" for Invalid.
C17_StatusPageShowsRunState ==
    (/\ last.op = "status"
     /\ \E j \in PageJobs(db, last.remote_path, last.sha) :
            \E r \in Ids(db.runs) : db.runs[r].job_id = j)
    => /\ last.resp = Some(200)
       /\ \E j \in PageJobs(db, last.remote_path, last.sha) :
            last.shown = ExpectedStatus(db.runs[NewestRun(db, j)])

\* C18: when the run created last for the job is Pending and an earlier run
\* of the job has Started or Finished, the run the page is derived from is
\* the one created last and the page shows "pending".
C18_StatusFollowsNewestRun ==
    (/\ last.op = "status"
     /\ \E j \in PageJobs(db, last.remote_path, last.sha) :
            /\ \E r \in Ids(db.runs) : db.runs[r].job_id = j
            /\ db.runs[NewestRun(db, j)].state = Pending
            /\ \E r \in Ids(db.runs) :
                    /\ db.runs[r].job_id = j /\ r < NewestRun(db, j)
                    /\ db.runs[r].state \in {Started, Finished})
    => /\ last.resp = Some(200)
       /\ last.shown = "pending"
       /\ \A j \in PageJobs(db, last.remote_path, last.sha) :
            LastRunForJob(db, j) = {NewestRun(db, j)}

\* C19: GET /:owner/:repo/:sha is answered 404 when sha has no commit row and
\* when owner/repo names no remote; the store stays as it was.
C19_StatusPage404 ==
    [][(/\ last'.op = "status"
        /\ \/ ~IsSome(CommitToId(db, last'.sha))
           \/ ~IsSome(RemoteByPath(db, last'.remote_path)))
       => (last'.resp = Some(404) /\ db' = db)]_vars

\* A remote's notifier config file is there and has the shape of its kind.
ConfigPasses(dir, remote) ==
    \/ remote.remote_api = "github"
            /\ FileShapeIn(dir, remote.notifier_config_path) = "GitHub"
    \/ remote.remote_api = "github-email"
            /\ FileShapeIn(dir, remote.notifier_config_path) = "Email"

\* C20: validate reports success exactly when every remote's notifier config
\* file is there, parses and has the shape of the remote's kind.
C20_ValidateReportsBadConfigs ==
    last.op = "validate"
    => ((last.out = "ok" /\ last.exit = "return")
            <=> \A i \in Ids(db.remotes) : ConfigPasses(last.config_path, db.remotes[i]))

----------------------------------------------------------------------------
\* C21: job list prints every run of the store exactly once, with its job
\* id, state, create time, commit id and run preference, by create time
\* ascending.
C21_JobListShowsEveryRun ==
    last.op = "job list"
    => /\ last.exit = "return"
       /\ IsSome(last.out)
       /\ Len(Unwrap(last.out)) = Len(db.runs)
       /\ \A r \in Ids(db.runs) :
            \E i \in 1..Len(Unwrap(last.out)) :
                Unwrap(last.out)[i] =
                    [job_id |-> db.runs[r].job_id, run_id |-> r, state |-> db.runs[r].state,
                     created_time |-> db.runs[r].create_time,
                     commit_id |-> db.jobs[db.runs[r].job_id].commit_id,
                     run_preferences |-> db.jobs[db.runs[r].job_id].run_preferences]
       /\ \A i, j \in 1..Len(Unwrap(last.out)) :
            i < j => Unwrap(last.out)[i].created_time <= Unwrap(last.out)[j].created_time

C23_FailedCommandsExitNonzero ==
    LET failed == \/ last.op \in {"add repo", "add remote"} /\ last.ret # "Ok"
                  \/ last.op = "job create" /\ ~last.found
                  \/ last.op = "job rerun-commit" /\ last.job_id = None
    IN last.op \in {"add repo", "add remote", "job create", "job rerun-commit"}
        => /\ failed => last.exit # "return"
           /\ (~failed /\ last.exit # "panic") => last.exit = "return"

\* C24: when the webhook presence check or the webhook creation of add repo
\* fails, the repo row and the remote row the command made are in the store
\* and the failure is printed.
C24_WebhookFailureKeepsRows ==
    [][(/\ last'.op = "add repo"
        /\ "webhook" \in DOMAIN last'
        /\ last'.webhook \in {"create failed", "check failed"})
       => /\ db'.repos = Append(db.repos, [repo_name |-> last'.name,
                                            default_run_preference |-> None])
          /\ Len(db'.remotes) = Len(db.remotes) + 1
          /\ SubSeq(db'.remotes, 1, Len(db.remotes)) = db.remotes
          /\ db'.remotes[Len(db'.remotes)].repo_id = Len(db'.repos)
          /\ db'.remotes[Len(db'.remotes)].remote_api = "github"
          /\ last'.report = (IF last'.webhook = "create failed"
                             THEN "[!] failed to create webhook"
                             ELSE "[!] unable to check for presence of webhook")]_vars

\* C24 witness: add repo with a github remote ran, the presence check failed,
\* and the repo and its remote are in the store.
C24_Witness ==
    /\ last.op = "add repo" /\ "webhook" \in DOMAIN last /\ last.webhook = "check failed"
    /\ IsSome(repo_id_by_name(db, last.name))
    /\ \E i \in Ids(db.remotes) :
            db.remotes[i].repo_id = Unwrap(repo_id_by_name(db, last.name))

\* C25: an authenticated push delivery whose JSON body is not a push (a field
\* missing or of the wrong type) is answered 400 with the failing path and the
\* expected type, and changes nothing in the store.
C25_MalformedPushAnswered400 ==
    [][(/\ last'.op = "webhook"
        /\ last'.req.body.json /\ ~parse_push_event(last'.req.body).ok
        /\ SignedByConfigured(db, last'.req)
        /\ last'.req.kind = Some("push"))
       => /\ last'.resp = Some(400)
          /\ last'.text # ""
          /\ db' = db]_vars

\* C26: an authenticated delivery of kind status, or of any kind but push, is
\* answered 200, changes nothing in the store and sends no status.
C26_OtherEventsAcknowledged ==
    [][(/\ last'.op = "webhook"
        /\ last'.req.body.json
        /\ SignedByConfigured(db, last'.req)
        /\ last'.req.kind \notin {None, Some("push")})
       => /\ last'.resp = Some(200)
          /\ db' = db
          /\ outbox' = outbox]_vars

\* The store job create leaves for a registered github remote.
StoreAfterJobCreate(d, repo_path, commit, pusher_email, t) ==
    LET remote == Unwrap(remote_by_path_and_api(d, "github", repo_path))
        pref == d.repos[d.remotes[remote].repo_id].default_run_preference
        j == new_job(d, remote, commit, Some(pusher_email), pref)
    IN new_run(j.db, j.job_id, None, t).db

\* C27: an authenticated push delivery for a registered remote leaves the
\* commit, job and run rows that job create leaves from the same store for the
\* same remote, sha and pusher email.
C27_PushEquivalentToJobCreate ==
    [][(/\ last'.op = "webhook"
        /\ AuthenticPush(db, last'.req)
        /\ RegisteredGithub(db, last'.req.body.full_name))
       => db' = StoreAfterJobCreate(db, last'.req.body.full_name, last'.req.body.after,
                                    last'.req.body.email, now)]_vars

StalePending(d, r, t) ==
    /\ r \in Ids(d.runs)
    /\ d.runs[r].state = Pending
    /\ d.runs[r].create_time + Unwrap(d.runs[r].run_timeout) < t

\* C29: under a fairly scheduled sweep a run does not stay Pending past
\* create_time + run_timeout for ever (the sweep makes it Invalid), and a
\* sweep makes every stale Pending run Invalid and leaves every other run,
\* the Pending runs within their timeout among them, as it was.
C29_StalePendingRunsAreSwept ==
    /\ \A r \in 1..(MaxLiveRuns + 1) :
            StalePending(db, r, now) ~> (r \in Ids(db.runs) /\ db.runs[r].state # Pending)
    /\ [][last'.op = "sweep" =>
            \A r \in Ids(db.runs) :
                IF StalePending(db, r, now)
                THEN db'.runs[r].state = Invalid
                ELSE db'.runs[r] = db.runs[r]]_vars

\* C29 witness: a sweep made the run that was past its timeout Invalid and
\* left a Pending run created at the time of the sweep alone.
C29_Witness ==
    /\ last.op = "sweep"
    /\ \E r \in Ids(db.runs) : r \in last.swept /\ db.runs[r].state = Invalid
    /\ \E r \in Ids(db.runs) :
            /\ r \notin last.swept
            /\ db.runs[r].state = Pending
            /\ db.runs[r].create_time = now

\* C30: in every state a Pending run has no host_id, build_token or
\* start_time; a Started run has all three; a Finished or Error run has all
\* three and complete_time and a result code.
C30_RunSnapshotsComplete ==
    \A r \in Ids(db.runs) :
        LET run == db.runs[r]
            claimed == IsSome(run.host_id) /\ IsSome(run.build_token) /\ IsSome(run.start_time)
        IN /\ run.state = Pending =>
                run.host_id = None /\ run.build_token = None /\ run.start_time = None
           /\ run.state = Started => claimed
           /\ run.state \in {Finished, Error} =>
                claimed /\ IsSome(run.complete_time) /\ IsSome(run.build_result)

\* C30 witness: a worker's finish moved a Started run to Error, and all of
\* the run's claim and completion fields are set.
C30_Witness ==
    /\ last.op = "finish" /\ last.ret = "Ok"
    /\ db.runs[last.run_id].state = Error
    /\ db.runs[last.run_id].build_result = Some(Fail)
    /\ IsSome(db.runs[last.run_id].complete_time)
    /\ IsSome(db.runs[last.run_id].host_id)

\* C31: a notifier config of either variant, written as JSON and read back,
\* is a config of the same variant with the same field values.
C31_ConfigRoundTrip ==
    last.op = "deserialize" => last.out = Some(last.config)

\* C31 witness: an Email config with a quote in a field was written and read back.
C31_Witness ==
    /\ last.op = "deserialize"
    /\ last.config.variant = "Email"
    /\ last.config.fields["password"] = <<"\"">>
    /\ last.json["password"] = <<"\\", "\"">>
    /\ IsSome(last.out)

\* C32: an authenticated push for a registered remote whose sha has a commit
\* row makes a job for the remote and the commit, with one Pending run, when
\* the remote has no job for the commit, and changes nothing when it has one.
C32_KnownCommitNewRemoteGetsJob ==
    [][(/\ last'.op = "webhook"
        /\ AuthenticPush(db, last'.req)
        /\ RegisteredGithub(db, last'.req.body.full_name)
        /\ IsSome(CommitToId(db, last'.req.body.after)))
       => LET remote == Unwrap(remote_by_path_and_api(db, "github",
                                                      last'.req.body.full_name))
              sha == last'.req.body.after
          IN IF JobsOf(db, remote, sha) = {}
             THEN /\ Len(db'.jobs) = Len(db.jobs) + 1
                  /\ JobsOf(db', remote, sha) = {Len(db'.jobs)}
                  /\ Len(db'.runs) = Len(db.runs) + 1
                  /\ db'.runs[Len(db'.runs)].job_id = Len(db'.jobs)
                  /\ db'.runs[Len(db'.runs)].state = Pending
             ELSE db' = db]_vars

\* C33: an authenticated push that makes a new job has the job row in the
\* store and a pending status handed to every notifier of the remote's repo,
\* whether or not one of them fails; a push for a pair that has a job hands
\* no status to any notifier.
C33_EveryNotifierToldOfNewJob ==
    [][(/\ last'.op = "webhook"
        /\ AuthenticPush(db, last'.req)
        /\ RegisteredGithub(db, last'.req.body.full_name))
       => LET remote == Unwrap(remote_by_path_and_api(db, "github",
                                                      last'.req.body.full_name))
              sha == last'.req.body.after
              ns == notifiers_by_repo(db, db.remotes[remote].repo_id)
          IN IF JobsOf(db, remote, sha) = {}
             THEN /\ JobsOf(db', remote, sha) # {}
                  /\ \A i \in 1..Len(ns) :
                        [remote_path |-> ns[i].remote_path, sha |-> sha, state |-> "pending"]
                            \in outbox'
             ELSE outbox' = outbox]_vars

\* C34: the host-coverage sweep makes a run for a host only for a job that
\* prefers "all" and has no run of that host yet, claimed or waiting, so that
\* after any number of sweeps no job has two runs that prefer the same host.
C34_OneCoverageRunPerJobAndHost ==
    [][last'.op = "host sweep" =>
        /\ \A j \in last'.jobs :
                /\ db.jobs[j].run_preferences = Some("all")
                /\ ~\E r \in Ids(db.runs) :
                        /\ db.runs[r].job_id = j
                        /\ Some(last'.host) \in {db.runs[r].host_id, db.runs[r].host_preference}
        /\ \A r1, r2 \in Ids(db'.runs) :
                (/\ db'.runs[r1].job_id = db'.runs[r2].job_id
                 /\ db'.runs[r1].host_preference # None
                 /\ db'.runs[r1].host_preference = db'.runs[r2].host_preference)
                => r1 = r2]_vars

\* C35: a state integer is read by a validating conversion: 0..4 give
\* Pending, Started, Finished, Error, Invalid, whose stored value is the
\* integer read; every other integer gives an error; and the status view
\* shows no state and no status for an integer outside 0..4.
C35_StateReadIsValidated ==
    /\ last.op = "run state read" =>
            IF last.value \in 0..4
            THEN /\ last.out.ok
                 /\ last.out.state = RunStateNames[last.value + 1]
                 /\ RunStateAsU8(last.out.state) = last.value
            ELSE ~last.out.ok
    /\ (last.op = "status read" /\ last.value \notin 0..4) =>
            /\ last.state \notin {JobStateNames[i] : i \in 1..5}
            /\ last.shown \notin {"pending", "pass", "(server error)"}

\* C36: for a GitHub notifier tell_job_status is Ok exactly when upstream
\* answered 200 or 201, and an error for every other status and when the
\* request failed; the state posted is pending for tell_pending_job, success
\* for tell_complete_job of an Ok description and failure of an Err one.
C36_StatusPostResult ==
    (last.op \in {"tell pending", "tell complete"} /\ last.notifier = "GitHub")
    => /\ last.ret.ok <=> (last.reply.ok /\ last.reply.status \in {200, 201})
       /\ last.posted = Some(IF last.op = "tell pending" THEN "pending"
                             ELSE IF last.desc.ok THEN "success" ELSE "failure")
       /\ [remote_path |-> "alice/foo", sha |-> "abc", state |-> Unwrap(last.posted)]
            \in outbox

\* C36 witness: the failure of a job was posted and upstream answered 201.
C36_Witness ==
    /\ last.op = "tell complete" /\ last.notifier = "GitHub"
    /\ ~last.desc.ok
    /\ last.reply = [ok |-> TRUE, status |-> 201]
    /\ last.ret.ok
    /\ last.posted = Some("failure")

\* C37: every remote row belongs to a repo row and names a config file that
\* loads for the remote's kind; add remote for an unknown repo or with a
\* config that does not load adds no remote row; add repo with an incomplete
\* remote triple or a kind other than github adds no row at all.
C37_RemoteNeedsRepoAndValidConfig ==
    [][/\ \A i \in Ids(db'.remotes) :
            /\ db'.remotes[i].repo_id \in Ids(db'.repos)
            /\ LoadConfigFor(db'.remotes[i].remote_api,
                             db'.remotes[i].notifier_config_path) = "ok"
       /\ (last'.op = "add remote" /\ last'.ret # "Ok") => db'.remotes = db.remotes
       /\ (last'.op = "add remote" /\ last'.ret = "does not exist")
            => ~IsSome(repo_id_by_name(db, last'.repo_name))
       /\ (last'.op = "add repo"
             /\ last'.ret \in {"incomplete remote triple", "unknown remote kind"})
            => db' = db]_vars

\* C37 witness: add remote for a repo of the store was refused for its config,
\* and the repo has no remote row.
C37_Witness ==
    /\ last.op = "add remote" /\ last.ret = "bad config"
    /\ IsSome(repo_id_by_name(db, last.repo_name))
    /\ \A i \in Ids(db.remotes) :
            db.remotes[i].repo_id # Unwrap(repo_id_by_name(db, last.repo_name))

\* C38: step start(n) leaves the stack [n] whatever it held; step push(n)
\* appends n, one deeper; step advance(n) puts n in place of the top and keeps
\* the depth of a stack that is not empty, and makes [n] of an empty one.
C38_StepStackOperations ==
    [][/\ last'.op = "step start" => current_step' = <<last'.name>>
       /\ last'.op = "step push" =>
            /\ current_step' = Append(current_step, last'.name)
            /\ Len(current_step') = Len(current_step) + 1
       /\ last'.op = "step advance" =>
            IF current_step = <<>>
            THEN current_step' = <<last'.name>>
            ELSE /\ Len(current_step') = Len(current_step)
                 /\ current_step'[Len(current_step)] = last'.name
                 /\ \A i \in 1..(Len(current_step) - 1) :
                        current_step'[i] = current_step[i]]_vars

\* C38 witness: an advance put a new name on top of a stack two deep, over a
\* different name below.
C38_Witness ==
    /\ last.op = "step advance"
    /\ Len(current_step) = 2
    /\ current_step[2] = last.name
    /\ current_step[1] # last.name
====
